---- MODULE Spec2Model ----
(***************************************************************************)
(* Model of the parallel partitioning and collective-communication         *)
(* protocol of ml-parallel-protocols:                                      *)
(*   src/model/func_impl.py            get_info and the collectors         *)
(*   src/data/data_parallel_preprocess.py   split_data                     *)
(* Worker ranks are 0 .. mp_size*dp_size-1.  Tensors are sequences of rows *)
(* (row b, column c of t is t[b][c], both counted from 1); Python's        *)
(* 0-based positions are shifted by one where they index a sequence.       *)
(***************************************************************************)
EXTENDS Integers, Sequences, FiniteSets, TLC

VARIABLES
    mp_size, dp_size,           \* grid dimensions
    pc,                         \* pc[r]: position of rank r in its program
    is_fc1, is_megatron_mp,     \* layer configuration passed to get_info
    in_dim, out_dim,
    mp_idx, dp_idx,             \* get_info results, per rank
    split_posted,               \* split_posted[r]: (color, key) pairs r passed to comm.Split so far
    mp_comm, dp_comm,           \* communicators: sequence of global ranks in group-rank order
    part_in_dim, part_out_dim,
    x_train, y_train,           \* split_data inputs
    split_x_train, split_y_train,
    batch_size, part_dim,       \* shapes of the local tensors of one training step
    x, out, grad_x, grad_w, grad_b,             \* local tensors, per rank
    salt,                       \* parameter the local tensors of the step are generated from
    mp_posted, dp_posted,       \* what each rank handed to the collectives of its MP / DP communicator, in call order
    collected_x, collected_out, collected_output_grad,
    collected_grad_x, collected_grad_w, collected_grad_b

gridVars == <<mp_size, dp_size, pc>>
infoVars == <<is_fc1, is_megatron_mp, in_dim, out_dim, mp_idx, dp_idx, split_posted,
              mp_comm, dp_comm, part_in_dim, part_out_dim>>
dataVars == <<x_train, y_train, split_x_train, split_y_train>>
stepVars == <<batch_size, part_dim, salt, x, out, grad_x, grad_w, grad_b, mp_posted, dp_posted,
              collected_x, collected_out, collected_output_grad,
              collected_grad_x, collected_grad_w, collected_grad_b>>
vars == <<gridVars, infoVars, dataVars, stepVars>>

\* ---- bounds of the model ----
MaxWorld == 4
MaxDim == 4
MaxData == 5
MaxBatch == 2
MaxPart == 2
MaxSalt == 1

\* Value of a result that has not been produced yet.
None == <<>>

Ranks == 0 .. (mp_size * dp_size - 1)

GridShapes == {g \in (1 .. MaxWorld) \X (1 .. MaxWorld) : g[1] * g[2] <= MaxWorld}

\* =====================================================================
\* get_info
\* =====================================================================

\* Faulty variant: the grid read column-major (rank % dp_size).
MpIdxSwapped(rank, mpsz, dpsz) == rank % dpsz
\* mp_idx = rank % mp_size
MpIdx(rank, mpsz, dpsz) == rank % mpsz

\* dp_idx = rank // mp_size
DpIdx(rank, mpsz, dpsz) == rank \div mpsz

\* The member of S that comes first in (key, old rank) order.
FirstByKey(S, args) ==
    CHOOSE m \in S : \A n \in S :
        \/ args[m].key < args[n].key
        \/ args[m].key = args[n].key /\ m <= n

RECURSIVE SortByKey(_, _)
SortByKey(S, args) ==
    IF S = {} THEN <<>>
    ELSE LET m == FirstByKey(S, args)
         IN  <<m>> \o SortByKey(S \ {m}, args)

\* comm.Split(color, key) as seen by rank me, once every rank of comm has
\* called it with args[m] = [color, key]: the ranks of me's color, ordered by
\* key and, for equal keys, by rank in comm.
CommSplit(args, me) ==
    SortByKey({m \in DOMAIN args : args[m].color = args[me].color}, args)

\* Faulty variant: the MP communicator split by mp_idx, the DP color.
MpSplitArgsSwapped(rank, mpi, dpi) == [color |-> mpi, key |-> rank]
\* mp_comm = comm.Split(color=dp_idx, key=rank)
MpSplitArgs(rank, mpi, dpi) == [color |-> dpi, key |-> rank]

\* dp_comm = comm.Split(color=mp_idx, key=rank)
DpSplitArgs(rank, mpi, dpi) == [color |-> mpi, key |-> rank]

\* Faulty variant: fc2 planned as under Megatron whatever the strategy.
PartDimsFc2AsMegatron(fc1, megatron, ind, outd, mpsz) ==
    IF fc1 THEN <<ind, outd \div mpsz>>
    ELSE <<ind \div mpsz, outd>>
\* <<part_in_dim, part_out_dim>> from is_fc1 and is_megatron_mp
PartDims(fc1, megatron, ind, outd, mpsz) ==
    IF fc1 THEN <<ind, outd \div mpsz>>
    ELSE IF megatron THEN <<ind \div mpsz, outd>>
         ELSE <<ind, outd \div mpsz>>

\* Position (from 0) of rank r in communicator c.
GroupRank(c, r) == (CHOOSE i \in 1 .. Len(c) : c[i] = r) - 1

Members(c) == {c[i] : i \in 1 .. Len(c)}

\* get_info up to the first comm.Split: the rank computes its grid
\* coordinates and enters Split(color=dp_idx, key=rank).
GetInfoCall(r) ==
    /\ pc[r] = "get_info"
    /\ LET mpi == MpIdx(r, mp_size, dp_size)
           dpi == DpIdx(r, mp_size, dp_size)
       IN  /\ mp_idx' = [mp_idx EXCEPT ![r] = mpi]
           /\ dp_idx' = [dp_idx EXCEPT ![r] = dpi]
           /\ split_posted' = [split_posted EXCEPT ![r] = <<MpSplitArgs(r, mpi, dpi)>>]
    /\ pc' = [pc EXCEPT ![r] = "split_mp"]
    /\ UNCHANGED <<mp_size, dp_size, is_fc1, is_megatron_mp, in_dim, out_dim,
                   mp_comm, dp_comm, part_in_dim, part_out_dim, dataVars, stepVars>>

\* The first Split returns (every rank of comm has entered it) and the rank
\* enters Split(color=mp_idx, key=rank).
GetInfoSplitMp(r) ==
    /\ pc[r] = "split_mp"
    /\ \A m \in Ranks : Len(split_posted[m]) >= 1
    /\ mp_comm' = [mp_comm EXCEPT ![r] = CommSplit([m \in Ranks |-> split_posted[m][1]], r)]
    /\ split_posted' = [split_posted EXCEPT
                          ![r] = Append(@, DpSplitArgs(r, mp_idx[r], dp_idx[r]))]
    /\ pc' = [pc EXCEPT ![r] = "split_dp"]
    /\ UNCHANGED <<mp_size, dp_size, is_fc1, is_megatron_mp, in_dim, out_dim, mp_idx, dp_idx,
                   dp_comm, part_in_dim, part_out_dim, dataVars, stepVars>>

\* The second Split returns; the partition dimensions are derived and
\* get_info returns.
GetInfoReturn(r) ==
    /\ pc[r] = "split_dp"
    /\ \A m \in Ranks : Len(split_posted[m]) >= 2
    /\ dp_comm' = [dp_comm EXCEPT ![r] = CommSplit([m \in Ranks |-> split_posted[m][2]], r)]
    /\ LET d == PartDims(is_fc1, is_megatron_mp, in_dim, out_dim, mp_size)
       IN  /\ part_in_dim' = [part_in_dim EXCEPT ![r] = d[1]]
           /\ part_out_dim' = [part_out_dim EXCEPT ![r] = d[2]]
    /\ pc' = [pc EXCEPT ![r] = "got_info"]
    /\ UNCHANGED <<mp_size, dp_size, is_fc1, is_megatron_mp, in_dim, out_dim, mp_idx, dp_idx,
                   split_posted, mp_comm, dataVars, stepVars>>

DataUnused ==
    /\ x_train = None /\ y_train = None
    /\ split_x_train = None /\ split_y_train = None

StepUnused ==
    /\ batch_size = 0 /\ part_dim = 0 /\ salt = 0
    /\ x = None /\ out = None /\ grad_x = None /\ grad_w = None /\ grad_b = None
    /\ mp_posted = None /\ dp_posted = None
    /\ collected_x = None /\ collected_out = None /\ collected_output_grad = None
    /\ collected_grad_x = None /\ collected_grad_w = None /\ collected_grad_b = None

InitInfo ==
    /\ \E g \in GridShapes : mp_size = g[1] /\ dp_size = g[2]
    /\ is_fc1 \in BOOLEAN
    /\ is_megatron_mp \in BOOLEAN
    /\ in_dim \in 1 .. MaxDim
    /\ out_dim \in 1 .. MaxDim
    /\ pc = [r \in Ranks |-> "get_info"]
    /\ mp_idx = [r \in Ranks |-> None]
    /\ dp_idx = [r \in Ranks |-> None]
    /\ split_posted = [r \in Ranks |-> <<>>]
    /\ mp_comm = [r \in Ranks |-> None]
    /\ dp_comm = [r \in Ranks |-> None]
    /\ part_in_dim = [r \in Ranks |-> None]
    /\ part_out_dim = [r \in Ranks |-> None]
    /\ DataUnused
    /\ StepUnused

NextInfo ==
    \/ \E r \in Ranks : GetInfoCall(r)
    \/ \E r \in Ranks : GetInfoSplitMp(r)
    \/ \E r \in Ranks : GetInfoReturn(r)

SpecInfo == InitInfo /\ [][NextInfo]_vars

\* =====================================================================
\* split_data
\* =====================================================================

Min(a, b) == IF a <= b THEN a ELSE b

\* Python's seq[start:end] for 0 <= start <= end: positions past the end of
\* seq are cut off, never an error.
PySlice(seq, start, end) == SubSeq(seq, Min(start, Len(seq)) + 1, Min(end, Len(seq)))

\* Faulty variant: the shard chosen by rank % dp_size.
DpGroupIdByModulo(rank, mpsz, dpsz) == rank % dpsz
\* dp_group_id = rank // mp_size
DpGroupId(rank, mpsz, dpsz) == rank \div mpsz

\* chunk_size = data_num // dp_size
ChunkSize(data_num, dpsz) == data_num \div dpsz

\* <<split_x_train, split_y_train>> of one call of split_data
SplitData(xs, ys, mpsz, dpsz, rank) ==
    LET chunk_size == ChunkSize(Len(xs), dpsz)
        start_idx  == DpGroupId(rank, mpsz, dpsz) * chunk_size
        end_idx    == start_idx + chunk_size
    IN  <<PySlice(xs, start_idx, end_idx), PySlice(ys, start_idx, end_idx)>>

\* Row i (from 0) of the training set carries feature value i and label LabelOf(i).
LabelOf(i) == 0 - (i + 1)

split_data(r) ==
    /\ pc[r] = "split_data"
    /\ LET s == SplitData(x_train, y_train, mp_size, dp_size, r)
       IN  /\ split_x_train' = [split_x_train EXCEPT ![r] = s[1]]
           /\ split_y_train' = [split_y_train EXCEPT ![r] = s[2]]
    /\ pc' = [pc EXCEPT ![r] = "split_done"]
    /\ UNCHANGED <<mp_size, dp_size, x_train, y_train, infoVars, stepVars>>

InfoUnused ==
    /\ is_fc1 = FALSE /\ is_megatron_mp = FALSE
    /\ in_dim = 0 /\ out_dim = 0
    /\ mp_idx = None /\ dp_idx = None /\ split_posted = None
    /\ mp_comm = None /\ dp_comm = None
    /\ part_in_dim = None /\ part_out_dim = None

InitData ==
    /\ \E g \in GridShapes : mp_size = g[1] /\ dp_size = g[2]
    /\ \E data_num \in 0 .. MaxData :
          /\ x_train = [i \in 1 .. data_num |-> i - 1]
          /\ y_train = [i \in 1 .. data_num |-> LabelOf(i - 1)]
    /\ pc = [r \in Ranks |-> "split_data"]
    /\ split_x_train = [r \in Ranks |-> None]
    /\ split_y_train = [r \in Ranks |-> None]
    /\ InfoUnused
    /\ StepUnused

NextData == \E r \in Ranks : split_data(r)

SpecData == InitData /\ [][NextData]_vars

\* =====================================================================
\* Tensors and the collectives of the message-passing layer
\* =====================================================================

Rows(t) == Len(t)
Cols(t) == Len(t[1])

\* A rows x cols tensor whose entries tell their position: seed, seed+1, ...
\* in row-major order.
Fill(seed, rows, cols) ==
    [b \in 1 .. rows |-> [c \in 1 .. cols |-> seed + (b - 1) * cols + (c - 1)]]

\* t.T
Transpose(t) == [c \in 1 .. Cols(t) |-> [b \in 1 .. Rows(t) |-> t[b][c]]]

\* t.flatten(): the entries of t in row-major (C) order.
Flatten(t) ==
    [i \in 1 .. Rows(t) * Cols(t) |-> t[((i - 1) \div Cols(t)) + 1][((i - 1) % Cols(t)) + 1]]

\* np.reshape(v, (rows, cols))
Reshape(v, rows, cols) ==
    [b \in 1 .. rows |-> [c \in 1 .. cols |-> v[(b - 1) * cols + c]]]

RECURSIVE ConcatRow(_, _)
\* Row b of every tensor of the list, one after the other.
ConcatRow(gathered, b) ==
    IF gathered = <<>> THEN <<>>
    ELSE Head(gathered)[b] \o ConcatRow(Tail(gathered), b)

\* np.concatenate(gathered, axis=1)
NpConcatenateAxis1(gathered) ==
    [b \in 1 .. Rows(gathered[1]) |-> ConcatRow(gathered, b)]

\* np.split(t, k, axis=1): the list of the k equal column blocks of t.
NpSplitAxis1(t, k) ==
    LET w == Cols(t) \div k
    IN  [i \in 1 .. k |-> [b \in 1 .. Rows(t) |-> SubSeq(t[b], (i - 1) * w + 1, i * w)]]

RECURSIVE VecSum(_)
\* Element-wise sum of a non-empty list of equally long buffers (op=MPI.SUM).
VecSum(bufs) ==
    IF Len(bufs) = 1 THEN bufs[1]
    ELSE LET rest == VecSum(Tail(bufs))
         IN  [i \in 1 .. Len(bufs[1]) |-> bufs[1][i] + rest[i]]

\* Faulty variant: a non-blocking call (Iallgather, Iallreduce, ...) whose
\* completion is never waited for.
ReadyNonBlocking(comm, posted, n) == TRUE
\* The n-th collective of communicator comm can complete: every rank of the
\* group has entered its n-th collective call on comm.
Ready(comm, posted, n) == \A m \in Members(comm) : Len(posted[m]) >= n

\* A rows x cols tensor of zeros: stands for a receive buffer nothing was written to.
Zeros(rows, cols) == [b \in 1 .. rows |-> [c \in 1 .. cols |-> 0]]

\* What rank m handed to its n-th collective.  A rank that has not entered it
\* has handed over nothing, and a receiver that did not wait for it is left
\* with blank, the content of its untouched receive buffer (Ready excludes
\* the case).
Contribution(posted, m, n, blank) ==
    IF Len(posted[m]) >= n THEN posted[m][n].buf ELSE blank

\* The buffers of the n-th collective of comm, in group-rank order.
Gathered(comm, posted, n, blank) ==
    [j \in 1 .. Len(comm) |-> Contribution(posted, comm[j], n, blank)]

\* Block grank of the summed send buffers: Reduce_scatter with equal counts.
ReduceScatter(bufs, recvcount, grank) ==
    SubSeq(VecSum(bufs), grank * recvcount + 1, (grank + 1) * recvcount)

Post(posted, r, op, buf) == [posted EXCEPT ![r] = Append(@, [op |-> op, buf |-> buf])]

\* =====================================================================
\* The collectors
\* =====================================================================

\* naive_collect_forward_input / naive_collect_forward_output:
\* np.concatenate(mp_comm.allgather(t), axis=1)
NaiveCollectForward(gathered) == NpConcatenateAxis1(gathered)

\* megatron_collect_forward_input
MegatronCollectForwardInputOf(t) == t

\* Faulty variant: every rank receives the first rank's buffer, unsummed.
MegatronReduceRootOnly(bufs) == bufs[1]
\* megatron_collect_forward_output: Allreduce(out, collected_out, op=MPI.SUM)
MegatronReduce(bufs) == VecSum(bufs)

\* Faulty variant: every rank keeps column block 0.
NaiveSelectFirstPart(output_grad, mp_group_idx, mpsz) == NpSplitAxis1(output_grad, mpsz)[1]
\* naive_collect_backward_output: np.split(output_grad, mp_size, axis=1)[mp_group_idx]
NaiveCollectBackwardOutputOf(output_grad, mp_group_idx, mpsz) ==
    NpSplitAxis1(output_grad, mpsz)[mp_group_idx + 1]

\* Faulty variant: the gradient flattened without the transpose.
BackwardXSendBufUntransposed(g) == Flatten(g)
\* naive_collect_backward_x: trans_grad_x.flatten(), the send buffer
BackwardXSendBuf(g) == Flatten(Transpose(g))

\* naive_collect_backward_x: np.reshape(recv_buf, (part_in_dim, batch_size)).T
BackwardXResult(recv_buf, part_in, batch) == Transpose(Reshape(recv_buf, part_in, batch))

\* megatron_collect_backward_output and megatron_collect_backward_x
MegatronCollectBackwardOf(t) == t

\* Faulty variant: the mean over the group in place of the sum.
WeightGradReduceMean(bufs) ==
    [i \in 1 .. Len(bufs[1]) |-> VecSum(bufs)[i] \div Len(bufs)]
\* collect_weight_grad: dp_comm.Allreduce(grad, collected_grad, op=MPI.SUM)
WeightGradReduce(bufs) == VecSum(bufs)

MyMp(r) == Len(mp_posted[r])
MyDp(r) == Len(dp_posted[r])

UnchangedStepInputs ==
    UNCHANGED <<mp_size, dp_size, infoVars, dataVars, batch_size, part_dim, salt,
                x, out, grad_x, grad_w, grad_b>>

\* ---- forward, layer input ----
NaiveCollectForwardInputCall(r) ==
    /\ pc[r] = "fwd_in" /\ ~is_megatron_mp
    /\ mp_posted' = Post(mp_posted, r, "allgather", x[r])
    /\ pc' = [pc EXCEPT ![r] = "fwd_in_wait"]
    /\ UnchangedStepInputs
    /\ UNCHANGED <<dp_posted, collected_x, collected_out, collected_output_grad,
                   collected_grad_x, collected_grad_w, collected_grad_b>>

NaiveCollectForwardInputReturn(r) ==
    /\ pc[r] = "fwd_in_wait"
    /\ Ready(mp_comm[r], mp_posted, MyMp(r))
    /\ collected_x' = [collected_x EXCEPT
          ![r] = NaiveCollectForward(Gathered(mp_comm[r], mp_posted, MyMp(r), Zeros(Rows(x[r]), Cols(x[r]))))]
    /\ pc' = [pc EXCEPT ![r] = "fwd_out"]
    /\ UnchangedStepInputs
    /\ UNCHANGED <<mp_posted, dp_posted, collected_out, collected_output_grad,
                   collected_grad_x, collected_grad_w, collected_grad_b>>

MegatronCollectForwardInput(r) ==
    /\ pc[r] = "fwd_in" /\ is_megatron_mp
    /\ collected_x' = [collected_x EXCEPT ![r] = MegatronCollectForwardInputOf(x[r])]
    /\ pc' = [pc EXCEPT ![r] = "fwd_out"]
    /\ UnchangedStepInputs
    /\ UNCHANGED <<mp_posted, dp_posted, collected_out, collected_output_grad,
                   collected_grad_x, collected_grad_w, collected_grad_b>>

\* ---- forward, layer output ----
NaiveCollectForwardOutputCall(r) ==
    /\ pc[r] = "fwd_out" /\ ~is_megatron_mp
    /\ mp_posted' = Post(mp_posted, r, "allgather", out[r])
    /\ pc' = [pc EXCEPT ![r] = "fwd_out_wait"]
    /\ UnchangedStepInputs
    /\ UNCHANGED <<dp_posted, collected_x, collected_out, collected_output_grad,
                   collected_grad_x, collected_grad_w, collected_grad_b>>

NaiveCollectForwardOutputReturn(r) ==
    /\ pc[r] = "fwd_out_wait" /\ ~is_megatron_mp
    /\ Ready(mp_comm[r], mp_posted, MyMp(r))
    /\ collected_out' = [collected_out EXCEPT
          ![r] = NaiveCollectForward(Gathered(mp_comm[r], mp_posted, MyMp(r), Zeros(Rows(out[r]), Cols(out[r]))))]
    /\ pc' = [pc EXCEPT ![r] = "bwd_out"]
    /\ UnchangedStepInputs
    /\ UNCHANGED <<mp_posted, dp_posted, collected_x, collected_output_grad,
                   collected_grad_x, collected_grad_w, collected_grad_b>>

MegatronCollectForwardOutputCall(r) ==
    /\ pc[r] = "fwd_out" /\ is_megatron_mp
    /\ mp_posted' = Post(mp_posted, r, "Allreduce", Flatten(out[r]))
    /\ pc' = [pc EXCEPT ![r] = "fwd_out_wait"]
    /\ UnchangedStepInputs
    /\ UNCHANGED <<dp_posted, collected_x, collected_out, collected_output_grad,
                   collected_grad_x, collected_grad_w, collected_grad_b>>

\* collected_out = np.empty_like(out) receives the reduced buffer.
MegatronCollectForwardOutputReturn(r) ==
    /\ pc[r] = "fwd_out_wait" /\ is_megatron_mp
    /\ Ready(mp_comm[r], mp_posted, MyMp(r))
    /\ collected_out' = [collected_out EXCEPT
          ![r] = Reshape(MegatronReduce(Gathered(mp_comm[r], mp_posted, MyMp(r),
                                                 Flatten(Zeros(Rows(out[r]), Cols(out[r]))))),
                         Rows(out[r]), Cols(out[r]))]
    /\ pc' = [pc EXCEPT ![r] = "bwd_out"]
    /\ UnchangedStepInputs
    /\ UNCHANGED <<mp_posted, dp_posted, collected_x, collected_output_grad,
                   collected_grad_x, collected_grad_w, collected_grad_b>>

\* ---- backward, gradient of the layer output ----
\* The caller passes the gradient of the collected output, which has the
\* shape and, here, the entries of collected_out.
NaiveCollectBackwardOutput(r) ==
    /\ pc[r] = "bwd_out" /\ ~is_megatron_mp
    /\ collected_output_grad' = [collected_output_grad EXCEPT
          ![r] = NaiveCollectBackwardOutputOf(collected_out[r], mp_idx[r], mp_size)]
    /\ pc' = [pc EXCEPT ![r] = "bwd_x"]
    /\ UnchangedStepInputs
    /\ UNCHANGED <<mp_posted, dp_posted, collected_x, collected_out,
                   collected_grad_x, collected_grad_w, collected_grad_b>>

MegatronCollectBackwardOutput(r) ==
    /\ pc[r] = "bwd_out" /\ is_megatron_mp
    /\ collected_output_grad' = [collected_output_grad EXCEPT
          ![r] = MegatronCollectBackwardOf(collected_out[r])]
    /\ pc' = [pc EXCEPT ![r] = "bwd_x"]
    /\ UnchangedStepInputs
    /\ UNCHANGED <<mp_posted, dp_posted, collected_x, collected_out,
                   collected_grad_x, collected_grad_w, collected_grad_b>>

\* ---- backward, gradient of the layer input ----
NaiveCollectBackwardXCall(r) ==
    /\ pc[r] = "bwd_x" /\ ~is_megatron_mp
    /\ mp_posted' = Post(mp_posted, r, "Reduce_scatter", BackwardXSendBuf(grad_x[r]))
    /\ pc' = [pc EXCEPT ![r] = "bwd_x_wait"]
    /\ UnchangedStepInputs
    /\ UNCHANGED <<dp_posted, collected_x, collected_out, collected_output_grad,
                   collected_grad_x, collected_grad_w, collected_grad_b>>

NaiveCollectBackwardXReturn(r) ==
    /\ pc[r] = "bwd_x_wait"
    /\ Ready(mp_comm[r], mp_posted, MyMp(r))
    /\ LET batch    == Rows(grad_x[r])
           part_in  == Cols(grad_x[r]) \div mp_size
           sent     == Gathered(mp_comm[r], mp_posted, MyMp(r),
                                   Flatten(Zeros(Cols(grad_x[r]), Rows(grad_x[r]))))
           recv_buf == ReduceScatter(sent, part_in * batch, GroupRank(mp_comm[r], r))
       IN  collected_grad_x' = [collected_grad_x EXCEPT
                                  ![r] = BackwardXResult(recv_buf, part_in, batch)]
    /\ pc' = [pc EXCEPT ![r] = "wgrad"]
    /\ UnchangedStepInputs
    /\ UNCHANGED <<mp_posted, dp_posted, collected_x, collected_out, collected_output_grad,
                   collected_grad_w, collected_grad_b>>

MegatronCollectBackwardX(r) ==
    /\ pc[r] = "bwd_x" /\ is_megatron_mp
    /\ collected_grad_x' = [collected_grad_x EXCEPT ![r] = MegatronCollectBackwardOf(grad_x[r])]
    /\ pc' = [pc EXCEPT ![r] = "wgrad"]
    /\ UnchangedStepInputs
    /\ UNCHANGED <<mp_posted, dp_posted, collected_x, collected_out, collected_output_grad,
                   collected_grad_w, collected_grad_b>>

\* ---- collect_weight_grad ----
\* Enters the Allreduce of grad_w.
CollectWeightGradCall(r) ==
    /\ pc[r] = "wgrad"
    /\ dp_posted' = Post(dp_posted, r, "Allreduce", Flatten(grad_w[r]))
    /\ pc' = [pc EXCEPT ![r] = "wgrad_w_wait"]
    /\ UnchangedStepInputs
    /\ UNCHANGED <<mp_posted, collected_x, collected_out, collected_output_grad,
                   collected_grad_x, collected_grad_w, collected_grad_b>>

\* The Allreduce of grad_w returns and the rank enters the one of grad_b.
CollectWeightGradW(r) ==
    /\ pc[r] = "wgrad_w_wait"
    /\ Ready(dp_comm[r], dp_posted, MyDp(r))
    /\ collected_grad_w' = [collected_grad_w EXCEPT
          ![r] = Reshape(WeightGradReduce(Gathered(dp_comm[r], dp_posted, MyDp(r),
                                                   Flatten(Zeros(Rows(grad_w[r]), Cols(grad_w[r]))))),
                         Rows(grad_w[r]), Cols(grad_w[r]))]
    /\ dp_posted' = Post(dp_posted, r, "Allreduce", Flatten(grad_b[r]))
    /\ pc' = [pc EXCEPT ![r] = "wgrad_b_wait"]
    /\ UnchangedStepInputs
    /\ UNCHANGED <<mp_posted, collected_x, collected_out, collected_output_grad,
                   collected_grad_x, collected_grad_b>>

\* The Allreduce of grad_b returns and collect_weight_grad returns both sums.
CollectWeightGradReturn(r) ==
    /\ pc[r] = "wgrad_b_wait"
    /\ Ready(dp_comm[r], dp_posted, MyDp(r))
    /\ collected_grad_b' = [collected_grad_b EXCEPT
          ![r] = Reshape(WeightGradReduce(Gathered(dp_comm[r], dp_posted, MyDp(r),
                                                   Flatten(Zeros(Rows(grad_b[r]), Cols(grad_b[r]))))),
                         Rows(grad_b[r]), Cols(grad_b[r]))]
    /\ pc' = [pc EXCEPT ![r] = "done"]
    /\ UnchangedStepInputs
    /\ UNCHANGED <<mp_posted, dp_posted, collected_x, collected_out, collected_output_grad,
                   collected_grad_x, collected_grad_w>>

\* The state get_info leaves behind on every rank, then the local tensors
\* of one training step of layer fc2, every rank at position start of the step.
InitCollect(start, strategies, batches, parts, salts) ==
    /\ \E g \in GridShapes : mp_size = g[1] /\ dp_size = g[2]
    /\ is_fc1 = FALSE
    /\ is_megatron_mp \in strategies
    /\ batch_size \in batches
    /\ part_dim \in parts
    /\ salt \in salts
    /\ in_dim = part_dim * mp_size
    /\ out_dim = part_dim * mp_size
    /\ mp_idx = [r \in Ranks |-> MpIdx(r, mp_size, dp_size)]
    /\ dp_idx = [r \in Ranks |-> DpIdx(r, mp_size, dp_size)]
    /\ split_posted = [r \in Ranks |-> <<MpSplitArgs(r, mp_idx[r], dp_idx[r]),
                                         DpSplitArgs(r, mp_idx[r], dp_idx[r])>>]
    /\ mp_comm = [r \in Ranks |-> CommSplit([m \in Ranks |-> split_posted[m][1]], r)]
    /\ dp_comm = [r \in Ranks |-> CommSplit([m \in Ranks |-> split_posted[m][2]], r)]
    /\ part_in_dim = [r \in Ranks |->
                        PartDims(is_fc1, is_megatron_mp, in_dim, out_dim, mp_size)[1]]
    /\ part_out_dim = [r \in Ranks |->
                        PartDims(is_fc1, is_megatron_mp, in_dim, out_dim, mp_size)[2]]
    /\ x = [r \in Ranks |-> Fill(salt * r, batch_size, part_dim)]
    /\ out = [r \in Ranks |-> Fill(salt * r + 1, batch_size, part_dim)]
    /\ grad_x = [r \in Ranks |-> Fill(salt * r + 2, batch_size, in_dim)]
    /\ grad_w = [r \in Ranks |-> Fill(salt * r + 3, in_dim, part_dim)]
    /\ grad_b = [r \in Ranks |-> Fill(salt * r + 4, 1, part_dim)]
    /\ pc = [r \in Ranks |-> start]
    /\ mp_posted = [r \in Ranks |-> <<>>]
    /\ dp_posted = [r \in Ranks |-> <<>>]
    /\ collected_x = [r \in Ranks |-> None]
    /\ collected_out = [r \in Ranks |-> None]
    /\ collected_output_grad = [r \in Ranks |-> None]
    /\ collected_grad_x = [r \in Ranks |-> None]
    /\ collected_grad_w = [r \in Ranks |-> None]
    /\ collected_grad_b = [r \in Ranks |-> None]
    /\ DataUnused

\* One whole step under either strategy.  Which rank waits for which depends
\* on the calls alone, so the tensors are the smallest ones, 1 x 1.
InitStep == InitCollect("fwd_in", BOOLEAN, {1}, {1}, {1})

NextStep ==
    \/ \E r \in Ranks : NaiveCollectForwardInputCall(r)
    \/ \E r \in Ranks : NaiveCollectForwardInputReturn(r)
    \/ \E r \in Ranks : MegatronCollectForwardInput(r)
    \/ \E r \in Ranks : NaiveCollectForwardOutputCall(r)
    \/ \E r \in Ranks : NaiveCollectForwardOutputReturn(r)
    \/ \E r \in Ranks : MegatronCollectForwardOutputCall(r)
    \/ \E r \in Ranks : MegatronCollectForwardOutputReturn(r)
    \/ \E r \in Ranks : NaiveCollectBackwardOutput(r)
    \/ \E r \in Ranks : MegatronCollectBackwardOutput(r)
    \/ \E r \in Ranks : NaiveCollectBackwardXCall(r)
    \/ \E r \in Ranks : NaiveCollectBackwardXReturn(r)
    \/ \E r \in Ranks : MegatronCollectBackwardX(r)
    \/ \E r \in Ranks : CollectWeightGradCall(r)
    \/ \E r \in Ranks : CollectWeightGradW(r)
    \/ \E r \in Ranks : CollectWeightGradReturn(r)

SpecStep == InitStep /\ [][NextStep]_vars

\* The naive collectors of the layer output and of the gradients.
InitNaive == InitCollect("fwd_out", {FALSE}, 1 .. MaxBatch, 1 .. MaxPart, 0 .. MaxSalt)

NextNaive ==
    \/ \E r \in Ranks : NaiveCollectForwardOutputCall(r)
    \/ \E r \in Ranks : NaiveCollectForwardOutputReturn(r)
    \/ \E r \in Ranks : NaiveCollectBackwardOutput(r)
    \/ \E r \in Ranks : NaiveCollectBackwardXCall(r)
    \/ \E r \in Ranks : NaiveCollectBackwardXReturn(r)

SpecNaive == InitNaive /\ [][NextNaive]_vars

\* The Megatron collectors.
InitMegatron == InitCollect("fwd_in", {TRUE}, 1 .. MaxBatch, 1 .. MaxPart, 0 .. MaxSalt)

NextMegatron ==
    \/ \E r \in Ranks : MegatronCollectForwardInput(r)
    \/ \E r \in Ranks : MegatronCollectForwardOutputCall(r)
    \/ \E r \in Ranks : MegatronCollectForwardOutputReturn(r)
    \/ \E r \in Ranks : MegatronCollectBackwardOutput(r)
    \/ \E r \in Ranks : MegatronCollectBackwardX(r)

SpecMegatron == InitMegatron /\ [][NextMegatron]_vars

\* collect_weight_grad.
InitWeightGrad == InitCollect("wgrad", {FALSE}, 1 .. MaxBatch, 1 .. MaxPart, 0 .. MaxSalt)

NextWeightGrad ==
    \/ \E r \in Ranks : CollectWeightGradCall(r)
    \/ \E r \in Ranks : CollectWeightGradW(r)
    \/ \E r \in Ranks : CollectWeightGradReturn(r)

SpecWeightGrad == InitWeightGrad /\ [][NextWeightGrad]_vars

\* =====================================================================
\* Properties of get_info
\* =====================================================================

GotInfo(r) == pc[r] = "got_info"

\* C10 (rank-grid bijection): every rank that has computed its coordinates
\* has 0 <= mp_idx < mp_size, 0 <= dp_idx < dp_size and
\* dp_idx*mp_size + mp_idx = rank, and no two ranks have the same pair.
RankGridBijection ==
    \A r \in Ranks : pc[r] # "get_info" =>
        /\ 0 <= mp_idx[r] /\ mp_idx[r] < mp_size
        /\ 0 <= dp_idx[r] /\ dp_idx[r] < dp_size
        /\ dp_idx[r] * mp_size + mp_idx[r] = r
        /\ \A s \in Ranks : (s # r /\ pc[s] # "get_info") =>
               <<mp_idx[r], dp_idx[r]>> # <<mp_idx[s], dp_idx[s]>>

RankGridBijectionWitness ==
    /\ mp_size >= 2 /\ dp_size >= 2
    /\ \A r \in Ranks : pc[r] # "get_info"

Ascending(c) == \A i \in 1 .. Len(c) : \A j \in 1 .. Len(c) : i < j => c[i] < c[j]

\* C5 (group construction): once get_info has returned on rank r, its MP
\* communicator holds exactly the ranks with r's dp_idx and its DP
\* communicator exactly the ranks with r's mp_idx, both in ascending rank
\* order, r sits at position mp_idx (dp_idx) of them, and a rank found in
\* another rank's MP (DP) communicator has that same communicator.
GroupConstruction ==
    \A r \in Ranks : GotInfo(r) =>
        /\ Members(mp_comm[r]) = {m \in Ranks : dp_idx[m] = dp_idx[r]}
        /\ Members(dp_comm[r]) = {m \in Ranks : mp_idx[m] = mp_idx[r]}
        /\ Len(mp_comm[r]) = Cardinality(Members(mp_comm[r]))
        /\ Len(dp_comm[r]) = Cardinality(Members(dp_comm[r]))
        /\ Ascending(mp_comm[r]) /\ Ascending(dp_comm[r])
        /\ mp_comm[r][mp_idx[r] + 1] = r
        /\ dp_comm[r][dp_idx[r] + 1] = r
        /\ \A s \in Ranks : GotInfo(s) =>
              /\ r \in Members(mp_comm[s]) => mp_comm[s] = mp_comm[r]
              /\ r \in Members(dp_comm[s]) => dp_comm[s] = dp_comm[r]

GroupConstructionWitness ==
    /\ mp_size = 2 /\ dp_size = 2
    /\ \A r \in Ranks : GotInfo(r)
    /\ mp_comm[3] = <<2, 3>> /\ dp_comm[3] = <<1, 3>>

\* C6 (decision table): with mp_size dividing in_dim and out_dim, get_info
\* returns (in_dim, out_dim/mp_size) for fc1, (in_dim/mp_size, out_dim) for
\* fc2 under Megatron and (in_dim, out_dim/mp_size) for fc2 under naive MP;
\* one dimension is kept and the other times mp_size is the global one.
ShardPlannerTable ==
    \A r \in Ranks : (GotInfo(r) /\ in_dim % mp_size = 0 /\ out_dim % mp_size = 0) =>
        /\ is_fc1 =>
              part_in_dim[r] = in_dim /\ part_out_dim[r] * mp_size = out_dim
        /\ (~is_fc1 /\ is_megatron_mp) =>
              part_in_dim[r] * mp_size = in_dim /\ part_out_dim[r] = out_dim
        /\ (~is_fc1 /\ ~is_megatron_mp) =>
              part_in_dim[r] = in_dim /\ part_out_dim[r] * mp_size = out_dim
        /\ \/ part_in_dim[r] = in_dim /\ part_out_dim[r] * mp_size = out_dim
           \/ part_in_dim[r] * mp_size = in_dim /\ part_out_dim[r] = out_dim

ShardPlannerTableWitness ==
    /\ mp_size = 2 /\ in_dim = 4 /\ out_dim = 2
    /\ ~is_fc1 /\ is_megatron_mp
    /\ GotInfo(1) /\ part_in_dim[1] = 2 /\ part_out_dim[1] = 2

\* The dimension the planner divides by mp_size.
SplitDim == IF is_fc1 \/ ~is_megatron_mp THEN out_dim ELSE in_dim

\* C7 (exact-division check): get_info never returns partition dimensions
\* when the dimension it splits is not divisible by mp_size.
ExactDivisionChecked ==
    \A r \in Ranks : GotInfo(r) => SplitDim % mp_size = 0

\* =====================================================================
\* Properties of split_data
\* =====================================================================

Elems(s) == {s[i] : i \in 1 .. Len(s)}

SplitDone(r) == pc[r] = "split_done"

\* C4 (shard partition): every shard has data_num // dp_size rows, in index
\* order and with their own labels; shards of different dp_index are
\* disjoint and follow each other in dp_index order; the shards of all ranks
\* cover exactly the rows 0 .. dp_size*(data_num // dp_size) - 1.
ShardPartition ==
    LET data_num == Len(x_train)
        chunk == data_num \div dp_size
    IN  /\ \A r \in Ranks : SplitDone(r) =>
              /\ Len(split_x_train[r]) = chunk
              /\ Len(split_y_train[r]) = chunk
              /\ \A i \in 1 .. chunk :
                    /\ split_y_train[r][i] = LabelOf(split_x_train[r][i])
                    /\ i < chunk => split_x_train[r][i + 1] = split_x_train[r][i] + 1
              /\ \A s \in Ranks : (SplitDone(s) /\ r \div mp_size < s \div mp_size) =>
                    \A a \in Elems(split_x_train[r]) :
                        \A b \in Elems(split_x_train[s]) : a < b
        /\ (\A r \in Ranks : SplitDone(r)) =>
              UNION {Elems(split_x_train[r]) : r \in Ranks} = 0 .. (dp_size * chunk - 1)

ShardPartitionWitness ==
    /\ dp_size = 2 /\ mp_size = 2 /\ Len(x_train) = 5
    /\ \A r \in Ranks : SplitDone(r)
    /\ split_x_train[0] = <<0, 1>> /\ split_x_train[3] = <<2, 3>>

\* =====================================================================
\* Properties of the collectors
\* =====================================================================

StepOrder == <<"fwd_in", "fwd_in_wait", "fwd_out", "fwd_out_wait", "bwd_out", "bwd_x",
               "bwd_x_wait", "wgrad", "wgrad_w_wait", "wgrad_b_wait", "done">>

StepPos(label) == CHOOSE i \in 1 .. Len(StepOrder) : StepOrder[i] = label

\* Rank r has completed the step of its program that starts at label.
After(r, label) == StepPos(pc[r]) > StepPos(label)

RECURSIVE SumOver(_, _)
SumOver(S, f) ==
    IF S = {} THEN 0
    ELSE LET m == CHOOSE n \in S : TRUE
         IN  f[m] + SumOver(S \ {m}, f)

\* C1 (naive forward/backward duality): the tensor
\* naive_collect_forward_output returns on a rank has, as column block j, the
\* local output of the rank of mp_index j of its MP group, and
\* naive_collect_backward_output applied to it with the rank's own
\* mp_group_idx returns the rank's own local output.
NaiveDuality ==
    \A r \in Ranks : ~is_megatron_mp =>
        /\ After(r, "fwd_out_wait") =>
              /\ Len(mp_comm[r]) = mp_size
              /\ Rows(collected_out[r]) = batch_size
              /\ \A b \in 1 .. batch_size :
                    /\ Len(collected_out[r][b]) = mp_size * part_dim
                    /\ \A j \in 1 .. mp_size : \A c \in 1 .. part_dim :
                          /\ mp_idx[mp_comm[r][j]] = j - 1
                          /\ collected_out[r][b][(j - 1) * part_dim + c]
                                = out[mp_comm[r][j]][b][c]
        /\ After(r, "bwd_out") => collected_output_grad[r] = out[r]

NaiveDualityWitness ==
    /\ ~is_megatron_mp /\ mp_size = 2 /\ batch_size = 2 /\ part_dim = 2 /\ salt = 1
    /\ After(1, "bwd_out")
    /\ collected_out[1] = <<<<1, 2, 2, 3>>, <<3, 4, 4, 5>>>>
    /\ collected_output_grad[1] = <<<<2, 3>>, <<4, 5>>>>

MegatronReduction ==
    \A r \in Ranks : (is_megatron_mp /\ After(r, "fwd_out_wait")) =>
        /\ Rows(collected_out[r]) = batch_size
        /\ \A b \in 1 .. batch_size :
              /\ Len(collected_out[r][b]) = part_dim
              /\ \A c \in 1 .. part_dim :
                    collected_out[r][b][c] =
                        SumOver(Members(mp_comm[r]), [m \in Ranks |-> out[m][b][c]])
        /\ \A s \in Members(mp_comm[r]) :
              After(s, "fwd_out_wait") => collected_out[s] = collected_out[r]
        /\ out[r] = Fill(salt * r + 1, batch_size, part_dim)

MegatronReductionWitness ==
    /\ is_megatron_mp /\ mp_size = 2 /\ batch_size = 2 /\ part_dim = 2 /\ salt = 1
    /\ After(0, "fwd_out_wait") /\ After(1, "fwd_out_wait")
    /\ collected_out[0] = <<<<3, 5>>, <<7, 9>>>>

\* C8 (gradient reduction): collect_weight_grad returns on every rank of a
\* DP group the element-wise sums of the group's weight gradients and of its
\* bias gradients, undivided; with dp_size = 1 these are the rank's inputs.
GradientReduction ==
    \A r \in Ranks : pc[r] = "done" =>
        /\ Rows(collected_grad_w[r]) = Rows(grad_w[r])
        /\ \A i \in 1 .. Rows(grad_w[r]) :
              /\ Len(collected_grad_w[r][i]) = Cols(grad_w[r])
              /\ \A j \in 1 .. Cols(grad_w[r]) :
                    collected_grad_w[r][i][j] =
                        SumOver(Members(dp_comm[r]), [m \in Ranks |-> grad_w[m][i][j]])
        /\ Rows(collected_grad_b[r]) = 1
        /\ Len(collected_grad_b[r][1]) = Cols(grad_b[r])
        /\ \A j \in 1 .. Cols(grad_b[r]) :
              collected_grad_b[r][1][j] =
                  SumOver(Members(dp_comm[r]), [m \in Ranks |-> grad_b[m][1][j]])
        /\ \A s \in Members(dp_comm[r]) : pc[s] = "done" =>
              /\ collected_grad_w[s] = collected_grad_w[r]
              /\ collected_grad_b[s] = collected_grad_b[r]
        /\ dp_size = 1 =>
              collected_grad_w[r] = grad_w[r] /\ collected_grad_b[r] = grad_b[r]

GradientReductionWitness ==
    /\ dp_size = 2 /\ mp_size = 2 /\ part_dim = 2 /\ salt = 1
    /\ pc[1] = "done" /\ pc[3] = "done"
    /\ grad_b[1] = <<<<5, 6>>>> /\ grad_b[3] = <<<<7, 8>>>>
    /\ collected_grad_b[3] = <<<<12, 14>>>>

MpWaiting(r) == pc[r] \in {"fwd_in_wait", "fwd_out_wait", "bwd_x_wait"}
DpWaiting(r) == pc[r] \in {"wgrad_w_wait", "wgrad_b_wait"}

\* Number of collectives of its MP (DP) communicator rank r has returned from.
MpReturned(r) == Len(mp_posted[r]) - (IF MpWaiting(r) THEN 1 ELSE 0)
DpReturned(r) == Len(dp_posted[r]) - (IF DpWaiting(r) THEN 1 ELSE 0)

\* C9 (blocking collectives): when a rank has returned from its n-th
\* collective call on a communicator, every rank of that communicator has
\* entered its n-th call on it, and that call is of the same kind; so a
\* collective some rank of the group never enters is one no rank of the
\* group returns from.
BlockingCollectives ==
    \A r \in Ranks :
        /\ \A n \in 1 .. MpReturned(r) : \A m \in Members(mp_comm[r]) :
              /\ Len(mp_posted[m]) >= n
              /\ mp_posted[m][n].op = mp_posted[r][n].op
        /\ \A n \in 1 .. DpReturned(r) : \A m \in Members(dp_comm[r]) :
              /\ Len(dp_posted[m]) >= n
              /\ dp_posted[m][n].op = dp_posted[r][n].op

\* A rank has passed all its collectives in a 2 x 2 grid while a rank of
\* another MP group still waits inside one.
BlockingCollectivesWitness ==
    /\ mp_size = 2 /\ dp_size = 2
    /\ pc[0] = "done" /\ MpReturned(0) = 3 /\ DpReturned(0) = 2
    /\ pc[1] = "wgrad_b_wait" /\ pc[3] = "wgrad_b_wait"

====
